---- MODULE Spec2Model ----
(***************************************************************************)
(* Shunting-yard calculator (src/Evaluator.cpp): the driver loop of main,  *)
(* the lexer lexana::lex, the reorderer shuntingYard and the postfix       *)
(* evaluator compute, as one state machine.                                *)
(*                                                                         *)
(* Text is a sequence of one-character strings, indexed from 0 as in the   *)
(* source (CharAt).  A float is modelled as an exact signed rational with  *)
(* signed zero, the infinities and NaN; a value whose numerator or         *)
(* denominator leaves the range a float holds exactly (2^24), or an        *)
(* irrational power, is the value Approx: "some float the model does not   *)
(* track".                                                                 *)
(***************************************************************************)
EXTENDS Integers, Sequences, FiniteSets, TLC

VARIABLES
    pc,            \* position in main: prompt, lex, shunt, shunted, compute, print, ...
    data,          \* lexana::data, the line being lexed
    i,             \* the index of the for loop of lexana::lex
    formatTokens,  \* lexana::formatTokens
    k,             \* position of the range-for of shuntingYard in tokens
    queue,         \* shuntingYard: the output queue
    opstack,       \* shuntingYard: the operator stack
    syError,       \* which diagnostic shuntingYard wrote to cerr, "none" if none
    formatted,     \* main: the deque shuntingYard returned, consumed by compute
    vstack,        \* compute: the value stack
    expr,          \* main: the value compute returned
    ub             \* the undefined behaviour the run has executed, "none" if none

vars == <<pc, data, i, formatTokens, k, queue, opstack, syError, formatted,
          vstack, expr, ub>>

----------------------------------------------------------------------------
(* Bounds of the model *)

\* longest input line over the whole alphabet
MaxLen == 3
\* longest input line over the expression alphabet
MaxExprLen == 5

\* largest magnitude a float holds exactly: 2^24 (float has a 24-bit significand)
FloatExact == 16777216

----------------------------------------------------------------------------
(* Characters *)

NUL == "NUL"                       \* data[data.size()], the terminator
WhitespaceChars == {" ", "\t", "\n", "\r"}
DigitChars == {"0", "1", "2", "3", "4", "5", "6", "7", "8", "9"}

Alphabet == {" ", "(", ")", "+", "-", "*", "x", "/", "%", "^",
             "0", "2", "3", ".", "_", "a"}
ExprAlphabet == {"2", "3", "-", "*", "^", "(", ")"}

Texts(S, n) == UNION {[1..m -> S] : m \in 0..n}
Inputs == Texts(Alphabet, MaxLen) \cup Texts(ExprAlphabet, MaxExprLen)

CharAt(s, j) == IF j < Len(s) THEN s[j + 1] ELSE NUL

DigitVal(c) ==
    CASE c = "0" -> 0 [] c = "1" -> 1 [] c = "2" -> 2 [] c = "3" -> 3
      [] c = "4" -> 4 [] c = "5" -> 5 [] c = "6" -> 6 [] c = "7" -> 7
      [] c = "8" -> 8 [] c = "9" -> 9

----------------------------------------------------------------------------
(* Float values *)

RECURSIVE GCD(_, _)
GCD(a, b) == IF b = 0 THEN a ELSE GCD(b, a % b)

\* a * b, saturating just above FloatExact
SatMul(a, b) ==
    IF a = 0 \/ b = 0 THEN 0
    ELSE IF a > FloatExact \/ b > FloatExact \/ b > FloatExact \div a
         THEN FloatExact + 1
         ELSE a * b

NaN == [kind |-> "nan", neg |-> FALSE, n |-> 0, d |-> 0]
Approx == [kind |-> "approx", neg |-> FALSE, n |-> 0, d |-> 0]
Inf(neg) == [kind |-> "inf", neg |-> neg, n |-> 1, d |-> 0]
Zero(neg) == [kind |-> "fin", neg |-> neg, n |-> 0, d |-> 1]

\* the float of sign neg and magnitude n/d (n/0 is an infinity, 0/0 is NaN)
Mk(neg, n, d) ==
    IF n = 0 /\ d = 0 THEN NaN
    ELSE IF d = 0 THEN Inf(neg)
    ELSE IF n = 0 THEN Zero(neg)
    ELSE IF n > FloatExact \/ d > FloatExact THEN Approx
    ELSE LET g == GCD(n, d)
         IN [kind |-> "fin", neg |-> neg, n |-> n \div g, d |-> d \div g]

IntVal(m) == Mk(m < 0, IF m < 0 THEN -m ELSE m, 1)
One == IntVal(1)
MinusOne == IntVal(-1)

IsZero(a) == a.kind = "fin" /\ a.n = 0

FMul(a, b) ==
    IF a.kind = "nan" \/ b.kind = "nan" THEN NaN
    ELSE IF a.kind = "approx" \/ b.kind = "approx" THEN Approx
    ELSE Mk(a.neg # b.neg, SatMul(a.n, b.n), SatMul(a.d, b.d))

FDiv(a, b) ==
    IF a.kind = "nan" \/ b.kind = "nan" THEN NaN
    ELSE IF a.kind = "approx" \/ b.kind = "approx" THEN Approx
    ELSE Mk(a.neg # b.neg, SatMul(a.n, b.d), SatMul(a.d, b.n))

FAdd(a, b) ==
    IF a.kind = "nan" \/ b.kind = "nan" THEN NaN
    ELSE IF a.kind = "approx" \/ b.kind = "approx" THEN Approx
    ELSE IF a.kind = "inf" /\ b.kind = "inf"
         THEN (IF a.neg = b.neg THEN a ELSE NaN)
    ELSE IF a.kind = "inf" THEN a
    ELSE IF b.kind = "inf" THEN b
    ELSE IF IsZero(a) /\ IsZero(b) THEN Zero(a.neg /\ b.neg)
    ELSE LET x == SatMul(a.n, b.d)
             y == SatMul(b.n, a.d)
             den == SatMul(a.d, b.d)
         IN IF x > FloatExact \/ y > FloatExact \/ den > FloatExact THEN Approx
            ELSE LET s == (IF a.neg THEN -x ELSE x) + (IF b.neg THEN -y ELSE y)
                 IN IF s = 0 THEN Zero(FALSE)
                    ELSE Mk(s < 0, IF s < 0 THEN -s ELSE s, den)

FNeg(a) == FMul(a, MinusOne)

FSub(a, b) ==
    IF a.kind = "nan" \/ b.kind = "nan" THEN NaN
    ELSE IF a.kind = "approx" \/ b.kind = "approx" THEN Approx
    ELSE FAdd(a, [b EXCEPT !.neg = ~b.neg])

\* m^e for naturals, saturating just above FloatExact
RECURSIVE IPow(_, _, _)
IPow(m, e, acc) ==
    IF e = 0 \/ acc > FloatExact \/ m = 1 THEN acc
    ELSE IF m = 0 THEN 0
    ELSE IPow(m, e - 1, SatMul(acc, m))

\* |a| compared with 1: -1, 0 or 1 (a finite or infinite)
CmpOne(a) == IF a.kind = "inf" \/ a.n > a.d THEN 1 ELSE IF a.n = a.d THEN 0 ELSE -1

\* std::pow(a, b)
FPow(a, b) ==
    IF IsZero(b) THEN One
    ELSE IF a = One THEN One
    ELSE IF a.kind = "nan" \/ b.kind = "nan" THEN NaN
    ELSE IF a.kind = "approx" \/ b.kind = "approx" THEN Approx
    ELSE IF b.kind = "inf"
         THEN (IF CmpOne(a) = 0 THEN One
               ELSE IF (CmpOne(a) = 1) = (~b.neg) THEN Inf(FALSE) ELSE Zero(FALSE))
    ELSE IF b.d = 1
         THEN LET neg == a.neg /\ (b.n % 2 = 1)
                  pn == IPow(a.n, b.n, 1)
                  pd == IPow(a.d, b.n, 1)
              IN IF pn > FloatExact \/ pd > FloatExact THEN Approx
                 ELSE IF b.neg THEN Mk(neg, pd, pn) ELSE Mk(neg, pn, pd)
    ELSE \* a fractional exponent
         IF IsZero(a) THEN (IF b.neg THEN Inf(FALSE) ELSE Zero(FALSE))
         ELSE IF a.kind = "inf" THEN (IF b.neg THEN Zero(FALSE) ELSE Inf(FALSE))
         ELSE IF a.neg THEN NaN
         ELSE Approx

----------------------------------------------------------------------------
(* Tokens *)

Token(type, prec, rassoc, unary, intData, fltData) ==
    [type |-> type, precedence |-> prec, rAssociative |-> rassoc,
     unary |-> unary, intData |-> intData, fltData |-> fltData]

\* token t {}
NilToken == Token("nil", 0, FALSE, FALSE, 0, Zero(FALSE))

OperatorTypes == {"add", "sub", "mul", "div", "mod", "exp"}

\* std::stoi of a string of digits
RECURSIVE ParseInt(_)
ParseInt(s) ==
    IF s = <<>> THEN 0
    ELSE 10 * ParseInt(SubSeq(s, 1, Len(s) - 1)) + DigitVal(s[Len(s)])

\* the longest prefix of s that holds digits only
RECURSIVE DigitPrefix(_)
DigitPrefix(s) ==
    IF s = <<>> \/ s[1] \notin DigitChars THEN <<>>
    ELSE <<s[1]>> \o DigitPrefix(Tail(s))

\* std::stof: the digits before the point, then the digits after it, up to the
\* first character that continues no number
ParseFloat(s) ==
    LET ip == DigitPrefix(s)
        rest == SubSeq(s, Len(ip) + 1, Len(s))
        fp == IF rest # <<>> /\ rest[1] = "." THEN DigitPrefix(Tail(rest)) ELSE <<>>
    IN Mk(FALSE, ParseInt(ip \o fp), IPow(10, Len(fp), 1))

----------------------------------------------------------------------------
(* lexana::lex *)

\* the whitespace case: ++i; goto _again, with no test of i against data.size()
RECURSIVE SkipWhitespace(_, _)
SkipWhitespace(s, j) ==
    IF CharAt(s, j) \in WhitespaceChars THEN SkipWhitespace(s, j + 1) ELSE j

\* the case '-': unary when it is the first token or follows an operator or '('
IsUnaryContext(toks) ==
    \/ toks = <<>>
    \/ toks[Len(toks)].type \in {"add", "sub", "div", "mul", "mod", "exp"}
    \/ toks[Len(toks)].type = "lpa"

\* a '.' met while the literal is already a float: "Redefinition of float"
Redefinition(type) == type = "f32"

\* the while loop of a numeric literal, from index j with the literal's type and
\* the text gathered so far
RECURSIVE ScanNumber(_, _, _, _)
ScanNumber(s, j, type, str) ==
    LET c == CharAt(s, j)
    IN IF c \in DigitChars \/ c = "_" \/ c = "."
       THEN IF c = "_" THEN ScanNumber(s, j + 1, type, str)
            ELSE IF c = "."
                 THEN IF Redefinition(type)
                      THEN [fatal |-> TRUE, i |-> j, type |-> type, str |-> str]
                      ELSE ScanNumber(s, j + 1, "f32", str \o <<".">>)
            ELSE ScanNumber(s, j + 1, type, str \o <<c>>)
       ELSE [fatal |-> FALSE, i |-> j, type |-> type, str |-> str]

\* the literal's token: stof for a float, stoi for an integer
NumberToken(type, str) ==
    IF type = "f32"
    THEN Token("f32", 0, FALSE, FALSE, 0, ParseFloat(str))
    ELSE Token("i32", 0, FALSE, FALSE, ParseInt(str), Zero(FALSE))

LexOk(j, t) == [fatal |-> FALSE, i |-> j, tok |-> t]
LexExit(j) == [fatal |-> TRUE, i |-> j, tok |-> NilToken]

\* the case '.': a literal only when a digit follows
LeadingPoint(s, j) ==
    IF CharAt(s, j + 1) \in DigitChars
    THEN LET r == ScanNumber(s, j + 1, "f32", <<".">>)
         IN IF r.fatal THEN LexExit(r.i) ELSE LexOk(r.i, NumberToken(r.type, r.str))
    ELSE LexExit(j)

\* the default case: std::cerr << "Unexpected: " << c; exit(1)
UnexpectedSkipped(s, j) == LexOk(j + 1, NilToken)
Unexpected(s, j) == LexExit(j)

\* One iteration of the for loop: the token lexed at index i0 and the value of
\* i when the loop tests it again, or the exit(1).
LexOne(s, i0, toks) ==
    LET j == SkipWhitespace(s, i0)
        c == CharAt(s, j)
    IN CASE c = "(" -> LexOk(j + 1, Token("lpa", 9, FALSE, FALSE, 0, Zero(FALSE)))
         [] c = ")" -> LexOk(j + 1, Token("rpa", 0, FALSE, FALSE, 0, Zero(FALSE)))
         [] c = "+" -> LexOk(j + 1, Token("add", 2, FALSE, FALSE, 0, Zero(FALSE)))
         [] c = "-" ->
              IF IsUnaryContext(toks)
              THEN LexOk(j + 1, Token("sub", 5, FALSE, TRUE, 0, Zero(FALSE)))
              ELSE LexOk(j + 1, Token("sub", 2, FALSE, FALSE, 0, Zero(FALSE)))
         [] c = "/" -> LexOk(j + 1, Token("div", 3, FALSE, FALSE, 0, Zero(FALSE)))
         [] c \in {"*", "x"} ->
              LexOk(j + 1, Token("mul", 3, FALSE, FALSE, 0, Zero(FALSE)))
         [] c = "%" -> LexOk(j + 1, Token("mod", 6, FALSE, FALSE, 0, Zero(FALSE)))
         [] c = "^" -> LexOk(j + 1, Token("exp", 4, TRUE, FALSE, 0, Zero(FALSE)))
         [] c \in DigitChars ->
              LET r == ScanNumber(s, j, "i32", <<>>)
              IN IF r.fatal THEN LexExit(r.i)
                 ELSE LexOk(r.i, NumberToken(r.type, r.str))
         [] c = "." -> LeadingPoint(s, j)
         [] OTHER -> Unexpected(s, j)

\* the whole for loop of lex on the line s, from index j with the tokens toks
RECURSIVE LexFrom(_, _, _)
LexFrom(s, j, toks) ==
    IF j >= Len(s) THEN [fatal |-> FALSE, toks |-> toks]
    ELSE LET r == LexOne(s, j, toks)
         IN IF r.fatal THEN [fatal |-> TRUE, toks |-> toks]
            ELSE LexFrom(s, r.i, Append(toks, r.tok))

\* lex on an empty token buffer
LexAll(s) == LexFrom(s, 0, <<>>)

----------------------------------------------------------------------------
(* shuntingYard *)

\* the condition under which the operator o1 pops the stack top o2
ShouldPopStrict(o1, o2) == o1.precedence < o2.precedence
ShouldPop(o1, o2) ==
    \/ (~o1.rAssociative /\ o1.precedence <= o2.precedence)
    \/ (o1.rAssociative /\ o1.precedence < o2.precedence)

\* the while loop of an operator token: the stack and the queue it leaves
RECURSIVE PopOperators(_, _, _)
PopOperators(o1, st, q) ==
    IF st # <<>> /\ ShouldPop(o1, st[Len(st)])
    THEN PopOperators(o1, SubSeq(st, 1, Len(st) - 1), Append(q, st[Len(st)]))
    ELSE [stack |-> st, queue |-> q]

\* the while loop of a right parenthesis: pops down to a left parenthesis
RECURSIVE PopToLeftParen(_, _, _)
PopToLeftParen(st, q, match) ==
    IF st # <<>> /\ st[Len(st)].type # "lpa"
    THEN PopToLeftParen(SubSeq(st, 1, Len(st) - 1), Append(q, st[Len(st)]), TRUE)
    ELSE [stack |-> st, queue |-> q, match |-> match]

\* the loop after the tokens: the stack emptied into the queue, or the error
RECURSIVE DrainStack(_, _)
DrainStack(st, q) ==
    IF st = <<>> THEN [error |-> FALSE, queue |-> q]
    ELSE IF st[Len(st)].type = "lpa" THEN [error |-> TRUE, queue |-> q]
    ELSE DrainStack(SubSeq(st, 1, Len(st) - 1), Append(q, st[Len(st)]))

----------------------------------------------------------------------------
(* compute *)

\* the inner switch of a binary operator: what is pushed for lhs and rhs; the
\* default case pushes nothing
BinaryResult(type, lhs, rhs) ==
    CASE type = "exp" -> <<FPow(lhs, rhs)>>
      [] type = "mul" -> <<FMul(lhs, rhs)>>
      [] type = "div" -> <<FDiv(lhs, rhs)>>
      [] type = "add" -> <<FAdd(lhs, rhs)>>
      [] type = "sub" -> <<FSub(lhs, rhs)>>
      [] OTHER -> <<>>

\* One iteration of the while loop for the token t on the value stack vs: the
\* stack it leaves, or the read of stack.back() on an empty vector.
ComputeToken(t, vs) ==
    CASE t.type = "i32" -> [ub |-> FALSE, stack |-> Append(vs, IntVal(t.intData))]
      [] t.type = "f32" -> [ub |-> FALSE, stack |-> Append(vs, t.fltData)]
      [] t.type \in OperatorTypes ->
           IF t.unary
           THEN IF vs = <<>> THEN [ub |-> TRUE, stack |-> vs]
                ELSE [ub |-> FALSE,
                      stack |-> [vs EXCEPT ![Len(vs)] = FNeg(vs[Len(vs)])]]
           ELSE IF Len(vs) < 2 THEN [ub |-> TRUE, stack |-> vs]
                ELSE [ub |-> FALSE,
                      stack |-> SubSeq(vs, 1, Len(vs) - 2)
                                \o BinaryResult(t.type, vs[Len(vs) - 1], vs[Len(vs)])]
      [] OTHER -> [ub |-> FALSE, stack |-> vs]

----------------------------------------------------------------------------
(* main *)

Init ==
    /\ pc = "prompt"
    /\ data = <<>>
    /\ i = 0
    /\ formatTokens = <<>>
    /\ k = 0
    /\ queue = <<>>
    /\ opstack = <<>>
    /\ syError = "none"
    /\ formatted = <<>>
    /\ vstack = <<>>
    /\ expr = Zero(FALSE)
    /\ ub = "none"

\* std::getline of a line other than "exit", and the call of lexer->lex
ReadLine ==
    /\ pc = "prompt"
    /\ \E t \in Inputs : data' = t
    /\ i' = 0
    /\ pc' = "lex"
    /\ UNCHANGED <<formatTokens, k, queue, opstack, syError, formatted, vstack,
                   expr, ub>>

\* the line "exit": break
Exit ==
    /\ pc = "prompt"
    /\ pc' = "exited"
    /\ UNCHANGED <<data, i, formatTokens, k, queue, opstack, syError, formatted,
                   vstack, expr, ub>>

\* one iteration of the for loop of lex: a token pushed, or exit(1)
LexStep ==
    /\ pc = "lex"
    /\ i < Len(data)
    /\ LET r == LexOne(data, i, formatTokens)
       IN IF r.fatal
          THEN /\ pc' = "fatal"
               /\ UNCHANGED <<i, formatTokens>>
          ELSE /\ pc' = "lex"
               /\ i' = r.i
               /\ formatTokens' = Append(formatTokens, r.tok)
    /\ UNCHANGED <<data, k, queue, opstack, syError, formatted, vstack, expr, ub>>

\* the for loop of lex ends; main calls shuntingYard(lexer->getTokens())
LexReturn ==
    /\ pc = "lex"
    /\ i >= Len(data)
    /\ pc' = "shunt"
    /\ k' = 0
    /\ queue' = <<>>
    /\ opstack' = <<>>
    /\ UNCHANGED <<data, i, formatTokens, syError, formatted, vstack, expr, ub>>

\* shuntingYard returns ret after writing the diagnostic err
SYReturn(ret, err) ==
    /\ pc' = "shunted"
    /\ formatted' = ret
    /\ syError' = err
    /\ queue' = <<>>
    /\ opstack' = <<>>
    /\ UNCHANGED k

\* one iteration of the range-for of shuntingYard
SYStep ==
    /\ pc = "shunt"
    /\ k < Len(formatTokens)
    /\ LET t == formatTokens[k + 1]
       IN CASE t.type \in {"i32", "f32"} ->
                 /\ queue' = Append(queue, t)
                 /\ k' = k + 1
                 /\ UNCHANGED <<pc, opstack, syError, formatted>>
            [] t.type \in OperatorTypes ->
                 LET r == PopOperators(t, opstack, queue)
                 IN /\ opstack' = Append(r.stack, t)
                    /\ queue' = r.queue
                    /\ k' = k + 1
                    /\ UNCHANGED <<pc, syError, formatted>>
            [] t.type = "lpa" ->
                 /\ opstack' = Append(opstack, t)
                 /\ k' = k + 1
                 /\ UNCHANGED <<pc, queue, syError, formatted>>
            [] t.type = "rpa" ->
                 LET r == PopToLeftParen(opstack, queue, FALSE)
                 IN IF ~r.match /\ r.stack = <<>>
                    THEN SYReturn(<<>>, "rparen")
                    ELSE /\ opstack' = IF r.stack # <<>>
                                       THEN SubSeq(r.stack, 1, Len(r.stack) - 1)
                                       ELSE r.stack
                         /\ queue' = r.queue
                         /\ k' = k + 1
                         /\ UNCHANGED <<pc, syError, formatted>>
            [] OTHER -> SYReturn(<<>>, "token")
    /\ UNCHANGED <<data, i, formatTokens, vstack, expr, ub>>

\* the loop after the tokens, and the return of the queue
SYDrain ==
    /\ pc = "shunt"
    /\ k = Len(formatTokens)
    /\ LET r == DrainStack(opstack, queue)
       IN IF r.error THEN SYReturn(<<>>, "mismatch") ELSE SYReturn(r.queue, "none")
    /\ UNCHANGED <<data, i, formatTokens, vstack, expr, ub>>

\* the value stack of compute: empty when main has just called it
ValueStack == IF pc = "shunted" THEN <<>> ELSE vstack

\* the state after undefined behaviour: nothing more is known of the run
Undefined(what) ==
    /\ pc' = "undefined"
    /\ ub' = what

\* One iteration of the while loop of compute.  t is a reference to
\* formatted.front() and is read after pop_front() has destroyed that token:
\* the read returns the token or is undefined.
ComputeStep ==
    /\ pc \in {"shunted", "compute"}
    /\ formatted # <<>>
    /\ formatted' = Tail(formatted)
    /\ \/ LET r == ComputeToken(Head(formatted), ValueStack)
          IN IF r.ub
             THEN /\ Undefined("emptyStack")
                  /\ vstack' = ValueStack
             ELSE /\ pc' = "compute"
                  /\ vstack' = r.stack
                  /\ UNCHANGED ub
       \/ /\ Undefined("dangling")
          /\ vstack' = ValueStack
    /\ UNCHANGED <<data, i, formatTokens, k, queue, opstack, syError, expr>>

\* return stack.back()
ComputeReturn ==
    /\ pc \in {"shunted", "compute"}
    /\ formatted = <<>>
    /\ IF ValueStack = <<>>
       THEN /\ Undefined("emptyStack")
            /\ UNCHANGED expr
       ELSE /\ pc' = "print"
            /\ expr' = ValueStack[Len(ValueStack)]
            /\ UNCHANGED ub
    /\ vstack' = ValueStack
    /\ UNCHANGED <<data, i, formatTokens, k, queue, opstack, syError, formatted>>

\* the result is printed, lexer->getTokens().clear(), and the loop prompts again
PrintAndClear ==
    /\ pc = "print"
    /\ pc' = "prompt"
    /\ formatTokens' = <<>>
    /\ data' = <<>>
    /\ i' = 0
    /\ k' = 0
    /\ vstack' = <<>>
    /\ expr' = Zero(FALSE)
    /\ syError' = "none"
    /\ UNCHANGED <<queue, opstack, formatted, ub>>

Next ==
    \/ ReadLine
    \/ Exit
    \/ LexStep
    \/ LexReturn
    \/ SYStep
    \/ SYDrain
    \/ ComputeStep
    \/ ComputeReturn
    \/ PrintAndClear

Spec == Init /\ [][Next]_vars

----------------------------------------------------------------------------
(* The reference evaluator of property C1: an expression over integer      *)
(* literals read by recursive descent, with the precedence                 *)
(*   power > modulo > unary minus > multiply, divide > add, subtract,      *)
(* power grouping to the right and every other operator to the left.       *)

RefChars == DigitChars \cup {"(", ")", "+", "-", "*", "x", "/", "%", "^"}

RefSym(sym, v) == [sym |-> sym, v |-> v]

\* the symbols of a text over RefChars: literals (sym "n") and single characters
RECURSIVE RefLex(_)
RefLex(s) ==
    IF s = <<>> THEN <<>>
    ELSE IF s[1] \in DigitChars
         THEN LET ds == DigitPrefix(s)
              IN <<RefSym("n", ParseInt(ds))>> \o RefLex(SubSeq(s, Len(ds) + 1, Len(s)))
         ELSE <<RefSym(IF s[1] = "x" THEN "*" ELSE s[1], 0)>> \o RefLex(Tail(s))

\* fmod(a, b)
RefMod(a, b) ==
    IF a.kind = "nan" \/ b.kind = "nan" \/ a.kind = "inf" \/ IsZero(b) THEN NaN
    ELSE IF a.kind = "approx" \/ b.kind = "approx" THEN Approx
    ELSE IF b.kind = "inf" THEN a
    ELSE LET x == SatMul(a.n, b.d)
             y == SatMul(b.n, a.d)
         IN IF x > FloatExact \/ y > FloatExact THEN Approx
            ELSE Mk(a.neg, x % y, SatMul(a.d, b.d))

RefFail == [ok |-> FALSE, v |-> NaN, rest |-> <<>>]
RefOk(v, rest) == [ok |-> TRUE, v |-> v, rest |-> rest]
NextIs(ts, syms) == ts # <<>> /\ ts[1].sym \in syms

RECURSIVE RefExpr(_), RefExprRest(_, _), RefTerm(_), RefTermRest(_, _),
          RefUnary(_), RefModulo(_), RefModuloRest(_, _), RefPower(_),
          RefOperand(_), RefAtom(_)

RefAtom(ts) ==
    IF ts = <<>> THEN RefFail
    ELSE IF ts[1].sym = "n" THEN RefOk(IntVal(ts[1].v), Tail(ts))
    ELSE IF ts[1].sym = "("
         THEN LET r == RefExpr(Tail(ts))
              IN IF r.ok /\ NextIs(r.rest, {")"}) THEN RefOk(r.v, Tail(r.rest))
                 ELSE RefFail
    ELSE RefFail

\* the right operand of ^ or %: a power, or a negated operand
RefOperand(ts) ==
    IF NextIs(ts, {"-"})
    THEN LET r == RefOperand(Tail(ts))
         IN IF r.ok THEN RefOk(FNeg(r.v), r.rest) ELSE RefFail
    ELSE RefPower(ts)

RefPower(ts) ==
    LET a == RefAtom(ts)
    IN IF a.ok /\ NextIs(a.rest, {"^"})
       THEN LET b == RefOperand(Tail(a.rest))
            IN IF b.ok THEN RefOk(FPow(a.v, b.v), b.rest) ELSE RefFail
       ELSE a

RefModuloRest(acc, ts) ==
    IF NextIs(ts, {"%"})
    THEN LET b == RefOperand(Tail(ts))
         IN IF b.ok THEN RefModuloRest(RefMod(acc, b.v), b.rest) ELSE RefFail
    ELSE RefOk(acc, ts)

RefModulo(ts) ==
    LET a == RefPower(ts)
    IN IF a.ok THEN RefModuloRest(a.v, a.rest) ELSE RefFail

RefUnary(ts) ==
    IF NextIs(ts, {"-"})
    THEN LET r == RefUnary(Tail(ts))
         IN IF r.ok THEN RefOk(FNeg(r.v), r.rest) ELSE RefFail
    ELSE RefModulo(ts)

RefTermRest(acc, ts) ==
    IF NextIs(ts, {"*", "/"})
    THEN LET b == RefUnary(Tail(ts))
         IN IF b.ok
            THEN RefTermRest(IF ts[1].sym = "*" THEN FMul(acc, b.v) ELSE FDiv(acc, b.v),
                             b.rest)
            ELSE RefFail
    ELSE RefOk(acc, ts)

RefTerm(ts) ==
    LET a == RefUnary(ts)
    IN IF a.ok THEN RefTermRest(a.v, a.rest) ELSE RefFail

RefExprRest(acc, ts) ==
    IF NextIs(ts, {"+", "-"})
    THEN LET b == RefTerm(Tail(ts))
         IN IF b.ok
            THEN RefExprRest(IF ts[1].sym = "+" THEN FAdd(acc, b.v) ELSE FSub(acc, b.v),
                             b.rest)
            ELSE RefFail
    ELSE RefOk(acc, ts)

RefExpr(ts) ==
    LET a == RefTerm(ts)
    IN IF a.ok THEN RefExprRest(a.v, a.rest) ELSE RefFail

RefParse(s) == RefExpr(RefLex(s))

\* a well-formed expression over integer literals
WellFormed(s) ==
    /\ s # <<>>
    /\ \A p \in 1..Len(s) : s[p] \in RefChars
    /\ RefParse(s).ok
    /\ RefParse(s).rest = <<>>

RefValue(s) == RefParse(s).v

----------------------------------------------------------------------------
(* Properties *)

IsLiteral(t) == t.type \in {"i32", "f32"}
IsBinary(t) == t.type \in OperatorTypes /\ ~t.unary
NumLeftParens(st) == Cardinality({p \in 1..Len(st) : st[p].type = "lpa"})
NoParen(q) == \A p \in 1..Len(q) : q[p].type \notin {"lpa", "rpa"}
Exact(v) == v.kind # "approx"

\* C1: for every well-formed expression over integer literals the value main
\* prints is the value of the reference evaluator.
C1_MatchesReference ==
    (pc = "print" /\ WellFormed(data))
        => (Exact(expr) /\ Exact(RefValue(data)) => expr = RefValue(data))

\* the line without its whitespace
StripWhitespace(s) == SelectSeq(s, LAMBDA c : c \notin WhitespaceChars)

NumChars == DigitChars \cup {".", "_"}

\* no whitespace of s stands inside a numeric literal
WhitespaceBetweenTokens(s) ==
    \A p, q \in 1..Len(s) :
        (p + 1 < q /\ s[p] \in NumChars /\ s[q] \in NumChars)
            => \E r \in (p + 1)..(q - 1) : s[r] \notin WhitespaceChars

\* C2: whitespace before, between and after the tokens of a lexable text
\* changes nothing: lex ends without the fatal error and with the tokens of
\* the text without the whitespace.
C2_WhitespaceNeutral ==
    (/\ pc \notin {"prompt", "lex"}
     /\ StripWhitespace(data) # <<>>
     /\ WhitespaceBetweenTokens(data)
     /\ ~LexAll(StripWhitespace(data)).fatal)
        => (pc # "fatal" /\ formatTokens = LexAll(StripWhitespace(data)).toks)

\* C3: a right parenthesis processed while the operator stack holds no left
\* parenthesis makes shuntingYard report the right-parenthesis error and
\* return the empty sequence, whether or not operators are popped on the way.
C3_UnmatchedRightParen ==
    [][(/\ pc = "shunt"
        /\ k < Len(formatTokens)
        /\ formatTokens[k + 1].type = "rpa"
        /\ NumLeftParens(opstack) = 0)
           => (pc' = "shunted" /\ syError' = "rparen" /\ formatted' = <<>>)]_vars

\* the parentheses open after the tokens toks, from the depth given; -1 once a
\* right parenthesis has no left parenthesis before it
RECURSIVE ParenDepth(_, _)
ParenDepth(toks, depth) ==
    IF toks = <<>> THEN depth
    ELSE IF toks[1].type = "lpa" THEN ParenDepth(Tail(toks), depth + 1)
    ELSE IF toks[1].type = "rpa"
         THEN (IF depth = 0 THEN -1 ELSE ParenDepth(Tail(toks), depth - 1))
    ELSE ParenDepth(Tail(toks), depth)

\* C4: a token sequence with a left parenthesis that no later right
\* parenthesis matches makes shuntingYard report the mismatched-parenthesis
\* error and return the empty sequence.
C4_UnmatchedLeftParen ==
    (pc = "shunted" /\ ParenDepth(formatTokens, 0) > 0)
        => (syError = "mismatch" /\ formatted = <<>>)

\* C5: when shuntingYard has returned the empty sequence for a parenthesis
\* error, the compute that follows reads no empty value stack.
C5_EmptySequenceRecoverable ==
    [][(pc = "shunted" /\ syError \in {"rparen", "mismatch"} /\ formatted = <<>>)
           => (ub' = "none" /\ pc' # "undefined")]_vars

Recognised ==
    WhitespaceChars \cup DigitChars
        \cup {"(", ")", "+", "-", "*", "x", "/", "%", "^", "."}

\* the character at p is a second decimal point of one numeric literal
SecondPointAt(s, q) ==
    /\ s[q] = "."
    /\ \E p \in 1..(q - 1) : s[p] = "." /\ \A r \in p..q : s[r] \in NumChars

\* the character at p is a '.' at a token start with no digit after it
LonePointAt(s, p) ==
    /\ s[p] = "."
    /\ (p = 1 \/ s[p - 1] \notin NumChars)
    /\ (p = Len(s) \/ s[p + 1] \notin DigitChars)

\* the character at p is an underscore inside a numeric literal
SeparatorAt(s, p) == s[p] = "_" /\ p > 1 /\ s[p - 1] \in NumChars

\* lex has not gone past the character at p, and if it has ended it has ended
\* in exit(1) with nothing handed to shuntingYard or compute
StopsAt(p) ==
    /\ pc \in {"lex", "fatal"}
    /\ i < p
    /\ Len(formatTokens) < p
    /\ k = 0 /\ queue = <<>> /\ opstack = <<>> /\ formatted = <<>> /\ vstack = <<>>

\* C6 as claimed: a second decimal point of a literal, a '.' at a token start
\* that no digit follows, and every character outside whitespace, the
\* operators, the digits and '.' end lex in exit(1).
C6_FatalAsClaimed ==
    \A p \in 1..Len(data) :
        (\/ SecondPointAt(data, p)
         \/ LonePointAt(data, p)
         \/ data[p] \notin Recognised) => StopsAt(p)

\* C6 as amended: the same, but for an underscore inside a numeric literal,
\* which lex drops as a separator.
C6_Fatal ==
    \A p \in 1..Len(data) :
        (\/ SecondPointAt(data, p)
         \/ LonePointAt(data, p)
         \/ (data[p] \notin Recognised /\ ~SeparatorAt(data, p))) => StopsAt(p)

\* lex has ended in exit(1) at the second point of a literal that began with '.'
C6_Witness ==
    /\ pc = "fatal"
    /\ Len(data) = 3
    /\ data[1] = "." /\ data[2] \in DigitChars
    /\ SecondPointAt(data, 3)

\* an operator token meets a stack top of its own precedence: a left-associative
\* one sends the top to the queue before it is pushed, a right-associative one
\* is pushed above it
TieBreak ==
    (/\ pc = "shunt"
     /\ k < Len(formatTokens)
     /\ formatTokens[k + 1].type \in OperatorTypes
     /\ opstack # <<>>
     /\ opstack[Len(opstack)].precedence = formatTokens[k + 1].precedence)
        => LET o1 == formatTokens[k + 1]
               o2 == opstack[Len(opstack)]
           IN IF o1.rAssociative
              THEN queue' = queue /\ opstack' = Append(opstack, o1)
              ELSE /\ Len(queue') > Len(queue)
                   /\ SubSeq(queue', 1, Len(queue) + 1) = Append(queue, o2)
                   /\ Len(opstack') <= Len(opstack)
                   /\ opstack'[Len(opstack')] = o1

\* a op b op' c with two binary operators of one precedence is returned as
\* a b op c op' when they are left-associative and as a b c op' op when they are
\* the power operator
ChainOrder ==
    (/\ pc = "shunt"
     /\ pc' = "shunted"
     /\ Len(formatTokens) = 5
     /\ IsLiteral(formatTokens[1]) /\ IsLiteral(formatTokens[3])
     /\ IsLiteral(formatTokens[5])
     /\ IsBinary(formatTokens[2]) /\ IsBinary(formatTokens[4])
     /\ formatTokens[2].precedence = formatTokens[4].precedence)
        => LET t == formatTokens
           IN IF t[4].rAssociative
              THEN formatted' = <<t[1], t[3], t[5], t[4], t[2]>>
              ELSE formatted' = <<t[1], t[3], t[2], t[5], t[4]>>

\* "2^3^2" evaluates to 512
PowerChain ==
    (pc' = "print" /\ data = <<"2", "^", "3", "^", "2">>)
        => (expr' = IntVal(512) /\ expr' # IntVal(64))

\* C7: the tie-break of shuntingYard between operators of equal precedence:
\* a left-associative operator pops the earlier one to the output before it is
\* pushed (a-b-c gives a b - c -), the power operator does not (a^b^c gives
\* a b c ^ ^), and "2^3^2" evaluates to 512.
C7_TieBreak == [][TieBreak /\ ChainOrder /\ PowerChain]_vars

\* "2^3^2" has been evaluated to 512
C7_Witness ==
    /\ pc = "print"
    /\ data = <<"2", "^", "3", "^", "2">>
    /\ formatTokens[2].rAssociative
    /\ expr = IntVal(512)

\* C8: a binary operator token processed with at least two values on the stack
\* pops two and pushes one.
C8_BinaryPopsTwoPushesOne ==
    [][(/\ pc \in {"shunted", "compute"}
        /\ formatted # <<>>
        /\ IsBinary(Head(formatted))
        /\ Len(ValueStack) >= 2
        /\ ub' # "dangling")
           => (/\ pc' = "compute"
               /\ Len(vstack') = Len(ValueStack) - 1
               /\ SubSeq(vstack', 1, Len(vstack') - 1)
                      = SubSeq(ValueStack, 1, Len(ValueStack) - 2))]_vars

\* C9: no operator token pops a left parenthesis, and the output queue never
\* holds a parenthesis.
C9_ParensStayOffQueue ==
    [][/\ (pc = "shunt" /\ k < Len(formatTokens)
           /\ formatTokens[k + 1].type \in OperatorTypes)
              => NumLeftParens(opstack') = NumLeftParens(opstack)
       /\ NoParen(queue')
       /\ NoParen(formatted')]_vars

\* C10: on a well-formed expression compute never finds the value stack short
\* and returns with exactly one value on it.
C10_ValidPostfix ==
    (ub = "emptyStack" \/ (pc = "print" /\ Len(vstack) # 1)) => ~WellFormed(data)

====
